---- MODULE Spec2Model ----
(***************************************************************************)
(* The scheduler server of universonic/CMDB (server/scheduler): the Serve  *)
(* loop that multiplexes three watch streams, a rescheduling timer and the *)
(* stop signal, the handlers it dispatches as goroutines, and the watch    *)
(* event model it consumes (shared/storage/generic).                       *)
(*                                                                         *)
(* Time is counted in minutes.  The storage backend, the cron schedule and *)
(* the executors are external: their answers are nondeterministic inputs.  *)
(*                                                                         *)
(* Init is the server as NewServer returns it; Prepare, RegisterExecutor,  *)
(* Subscribe and Stop can be called at any time from other goroutines.     *)
(*                                                                         *)
(* Spec and FairSpec are the server; EndSpec is the server with storage    *)
(* that may close a watcher's output channel; StringSpec is one call of    *)
(* WatchEventType.String; SweepSpec and FairSweepSpec follow the discovery *)
(* sweeps statement by statement against a storage backend.                *)
(***************************************************************************)
EXTENDS Integers, Sequences, FiniteSets, Bags, TLC

\* ---------------------------------------------------------------- bounds
\* Last instant of the clock.
MaxTime == 3
\* Largest number of inputs of one run: Subscribe calls, loop iterations that
\* receive a watch event or a tick, and Prepare and RegisterExecutor calls
\* made after Serve was called.
MaxInputs == 2
\* Largest number of registered executors.
MaxExec == 2

\* ------------------------------------------------------------ event model
CREATE == 1
UPDATE == 2
DELETE == 4
ERROR == 8

\* The zero time.Time, which cron.Schedule.Next returns when it finds no
\* activation (sche.IsZero()).
Zero == 0

\* time.Minute, in minutes.
Minute == 1

\* The type bytes a stream can deliver: the four tags and the zero byte.
EventTypes == {0, CREATE, UPDATE, DELETE, ERROR}

\* WatchEvent.Value as a token sequence of the JSON text.
Encode(guid) == <<"{", "guid", ":", guid, "}">>

\* The payloads a stream can deliver: a truncated text and a well-formed
\* object.
Values == {<<"{">>, Encode("m1")}

\* WatchEvent.Unmarshal: json.Unmarshal of the value into the object; an
\* error when the text is not a well-formed object, else the decoded guid.
Unmarshal(value) ==
    IF /\ Len(value) = 5
       /\ value[1] = "{"
       /\ value[2] = "guid"
       /\ value[3] = ":"
       /\ value[5] = "}"
    THEN [err |-> FALSE, guid |-> value[4]]
    ELSE [err |-> TRUE, guid |-> ""]

\* The largest value of a WatchEventType, which is a byte.
MaxByte == 255

\* WatchEventTypeName, the map the stringer reads.
WatchEventTypeName ==
    (1 :> "CREATE") @@ (2 :> "UPDATE") @@ (4 :> "DELETE") @@ (8 :> "ERROR")

\* String with the type read as a set of flags: the name of the lowest flag
\* that is set.
StringOfLowestFlag(t) ==
    IF t % 2 = 1 THEN "CREATE"
    ELSE IF (t \div 2) % 2 = 1 THEN "UPDATE"
    ELSE IF (t \div 4) % 2 = 1 THEN "DELETE"
    ELSE IF (t \div 8) % 2 = 1 THEN "ERROR"
    ELSE "<invalid>"

\* WatchEventType.String: the map entry of byte(of) when there is one, else
\* "<invalid>".
String(t) ==
    IF t \in DOMAIN WatchEventTypeName
    THEN WatchEventTypeName[t]
    ELSE "<invalid>"

\* ------------------------------------------------------------------ state
VARIABLES
    pc,               \* position of Serve
    err,              \* Serve's named result
    machineObserver,  \* "nil", "open", "ended" (its output channel has been
                      \* closed by the storage) or "closed" (Close was called)
    digestObserver,
    autoDiscObserver,
    closeCh,          \* "open" or "closed"
    clzSubCh,         \* the registry: sequence of handle ids, NilChan for
                      \* a slot whose element has not been stored
    chans,            \* chans[h]: number of close operations handle h has seen
    issued,           \* issued[h]: when Subscribe(h) ran: "pre" (all of it
                      \* before Serve), "running" (called while Serve was in
                      \* its main loop) or "other"
    subPc,            \* position of the Subscribe call in flight
    subSnap,          \* the slice header that call has read
    subAt,            \* when that call began
    rangeLen,         \* length captured by the deferred range statement
    rangeIdx,         \* its index
    revalidate,
    sche,             \* the latest answer of in.sche.Next
    timer,            \* [active, at, d]: armed at instant at for duration d
    now,              \* the clock
    storage,          \* in.storage is not nil
    Handler,          \* in.Handler is not nil
    executor,         \* len(in.Handler.executor), 0 while in.Handler is nil
    late,             \* Prepare and RegisterExecutor calls made after Serve
                      \* was called
    tasks,            \* the goroutines started and not yet finished: a bag of
                      \* [fn, value, st, pool]
    lastRun,          \* the event handler that finished last: its event value
                      \* and the executor calls it made
    panicked,         \* the process has died of a runtime panic
    iter,             \* loop iterations that received an event or a tick
    last,             \* what the latest such iteration received
    everConcrete,     \* the schedule has answered a concrete instant
    of,               \* the receiver of a WatchEventType.String call
    shown,            \* what that call returned ("" before it returns)
    backend,          \* the storage the discovery sweeps run against
    store,            \* the discovered-machines records it holds: their State
    sweeps            \* the autoDiscoveryOnTime calls followed statement by
                      \* statement: sweeps[i] = [pc, err, call], call the
                      \* storage call that assigned err

vars == <<pc, err, machineObserver, digestObserver, autoDiscObserver, closeCh,
          clzSubCh, chans, issued, subPc, subSnap, subAt, rangeLen,
          rangeIdx,
          revalidate, sche, timer, now, storage, Handler, executor, late, tasks,
          lastRun,
          panicked, iter,
          last,
          everConcrete, of, shown, backend, store, sweeps>>

serveVars == <<pc, err, machineObserver, digestObserver, autoDiscObserver,
               rangeLen, rangeIdx, revalidate, sche, timer, iter, last,
               everConcrete>>
subVars == <<clzSubCh, chans, issued, subPc, subSnap, subAt>>
taskVars == <<tasks, lastRun>>
stopVars == <<closeCh>>
handlerVars == <<storage, Handler, executor, late>>
serverVars == <<serveVars, subVars, taskVars, stopVars, now, handlerVars,
                panicked>>
typeVars == <<of, shown>>
sweepVars == <<backend, store, sweeps>>

NoRun == [fn |-> "none", value |-> <<>>, calls |-> <<>>]

NoEvent == [src |-> "none", type |-> 0]

\* NewServer: the stop channel and the schedule; in.storage and in.Handler
\* are nil until Prepare.
ServerInit ==
    /\ pc = "init"
    /\ err = "nil"
    /\ machineObserver = "nil"
    /\ digestObserver = "nil"
    /\ autoDiscObserver = "nil"
    /\ closeCh = "open"
    /\ clzSubCh = <<>>
    /\ chans = <<>>
    /\ issued = <<>>
    /\ subPc = "idle"
    /\ subSnap = <<>>
    /\ subAt = "pre"
    /\ rangeLen = 0
    /\ rangeIdx = 0
    /\ revalidate = FALSE
    /\ sche = Zero
    /\ timer = [active |-> FALSE, at |-> 0, d |-> 0]
    /\ now = 1
    /\ storage = FALSE
    /\ Handler = FALSE
    /\ executor = 0
    /\ late = 0
    /\ tasks = EmptyBag
    /\ lastRun = NoRun
    /\ panicked = FALSE
    /\ iter = 0
    /\ last = NoEvent
    /\ everConcrete = FALSE

\* The server as constructed; no String call and no discovery sweep is
\* followed.
Init ==
    /\ ServerInit
    /\ of = 0
    /\ shown = ""
    /\ backend = "none"
    /\ store = <<>>
    /\ sweeps = <<>>


\* Serve is in its main loop: at the select, or between the two go
\* statements of a tick.
InLoop == pc \in {"loop", "goAutoDisc"}

\* Where Serve is, as its callers see it: not yet called, in its main loop,
\* or elsewhere (starting, or past the loop).
Phase ==
    IF pc = "init" THEN "pre"
    ELSE IF InLoop THEN "running"
    ELSE "other"

\* The inputs the run has had so far.
Inputs == Len(chans) + (IF subPc # "idle" THEN 1 ELSE 0) + iter + late

\* A Prepare or RegisterExecutor call is counted as an input once Serve has
\* been called; a Prepare call is counted when it stores the handler.
Counted ==
    /\ pc # "init" => Inputs < MaxInputs
    /\ late' = (IF pc # "init" THEN late + 1 ELSE late)

\* ------------------------------------------------------- setup operations
\* The pool of a goroutine whose receiver is the handler in.Handler still
\* points to.  go in.Handler.f(event) evaluates in.Handler when the goroutine
\* is started, so a goroutine started before a Prepare call keeps the handler
\* that call replaced, whose pool has the length it had then.
Live == -1

\* The pool of a goroutine started while in.Handler was nil: its receiver is
\* a nil *Handler, whatever Prepare stores afterwards.
NoHandler == -2

\* The receiver go in.Handler.f(...) binds now.
Bound == IF Handler THEN Live ELSE NoHandler

\* The handlers that read in.executor.
ReadsExecutor(fn) ==
    fn \in {"refreshMachineSnapshotOnEvent", "refreshDicoveredMachinesOnEvent"}

\* Goroutine t once the handler with n executors has been replaced.
Replaced(t, n) ==
    IF ReadsExecutor(t.fn) /\ t.pool = Live THEN [t EXCEPT !.pool = n] ELSE t

\* The bag of goroutines once the handler with n executors has been replaced.
Rebound(bag, n) ==
    [e \in {Replaced(t, n) : t \in DOMAIN bag} |->
        (IF e \in DOMAIN bag /\ Replaced(e, n) = e THEN bag[e] ELSE 0)
        + (LET l == [e EXCEPT !.pool = Live]
           IN IF l # e /\ l \in DOMAIN bag /\ Replaced(l, n) = e
              THEN bag[l]
              ELSE 0)]

\* len(in.executor) as goroutine t reads it; a goroutine on a nil handler
\* dies before it reads any.
PoolSize(t) ==
    IF t.pool = Live THEN executor
    ELSE IF t.pool = NoHandler THEN 0
    ELSE t.pool

\* The positions of Serve at which it is about to read in.storage for a Watch
\* call.
ReadsStorage == pc \in {"init", "watchDigest", "watchAutoDisc"}

\* Server.Prepare, first statement: in.storage = storage.  Nothing orders the
\* store of the interface value (two words) with Serve's reads of in.storage
\* for its Watch calls: a read sees the old value or the new one, as if it
\* came before or after the store, or one word of each, and the Watch call
\* on that value panics; the deferred function runs while the panic unwinds
\* Serve.
PrepareStorage ==
    /\ ~panicked
    /\ storage' = TRUE
    /\ \/ UNCHANGED pc
       \/ /\ ReadsStorage
          /\ pc' = "unwindRange"
    /\ UNCHANGED <<err, machineObserver, digestObserver, autoDiscObserver,
                   rangeLen, rangeIdx, revalidate, sche, timer, iter, last,
                   everConcrete, subVars, taskVars, stopVars, now, Handler,
                   executor, late, panicked>>
    /\ UNCHANGED <<typeVars, sweepVars>>

\* Server.Prepare, second statement: in.Handler = NewHandler(storage,
\* logger), a handler with no executor.  The code accepts the call at any
\* time, before Serve or while it runs, and nothing orders its two stores
\* with Serve: between them in.storage is set and in.Handler is what it was.
PrepareHandler ==
    /\ ~panicked
    /\ storage
    /\ Counted
    /\ Handler' = TRUE
    /\ executor' = 0
    /\ tasks' = Rebound(tasks, executor)
    /\ UNCHANGED <<serveVars, subVars, lastRun, stopVars, now, storage,
                   panicked>>
    /\ UNCHANGED <<typeVars, sweepVars>>

\* A handler goroutine is about to read the executors of in.Handler: it has
\* been started for an event it can decode.
ReadPending ==
    \E t \in BagToSet(tasks) :
        /\ ReadsExecutor(t.fn)
        /\ t.pool = Live
        /\ ~Unmarshal(t.value).err

\* in.Handler.RegisterExecutor(exec): in.executor = append(in.executor, exec).
\* On a nil in.Handler the statement dereferences nil.  Nothing orders the
\* store of the new slice header with a handler goroutine's read of it: the
\* read sees the old header or the new one, as if it came before or after the
\* call, or a mix of the two, and the goroutine then indexes past the old
\* array and the process dies.
RegisterExecutor ==
    /\ ~panicked
    /\ Counted
    /\ IF ~Handler
       THEN panicked' = TRUE /\ UNCHANGED executor
       ELSE \/ /\ executor < MaxExec
               /\ executor' = executor + 1
               /\ UNCHANGED panicked
            \/ /\ ReadPending
               /\ panicked' = TRUE
               /\ UNCHANGED executor
    /\ UNCHANGED <<serveVars, subVars, taskVars, stopVars, now, storage,
                   Handler>>
    /\ UNCHANGED <<typeVars, sweepVars>>

\* A slot of the registry that holds no channel: the nil chan struct{}.
NilChan == 0

\* Server.Subscribe: make the channel and read in.clzSubCh for the append.
\* The caller is not synchronised with Serve.
SubscribeBegin ==
    /\ ~panicked
    /\ subPc = "idle"
    /\ Inputs < MaxInputs
    /\ subPc' = "append"
    /\ subSnap' = clzSubCh
    /\ subAt' = Phase
    /\ UNCHANGED <<serveVars, taskVars, clzSubCh, chans, issued, stopVars, now,
                   handlerVars, panicked>>
    /\ UNCHANGED <<typeVars, sweepVars>>

\* Server.Subscribe: in.clzSubCh = append(in.clzSubCh, subscription) stores
\* the slice header with the new length before it stores the element, so
\* the new slot is in the registry and holds nil until SubscribeEnd.  A
\* reader that mixes the words of the old header and of the new one reads
\* the same slot or one past the old array, and fails as on the nil slot.
SubscribeLen ==
    /\ ~panicked
    /\ subPc = "append"
    /\ clzSubCh' = Append(subSnap, NilChan)
    /\ subPc' = "store"
    /\ UNCHANGED <<serveVars, taskVars, chans, issued, subSnap, subAt, stopVars,
                   now, handlerVars, panicked>>
    /\ UNCHANGED <<typeVars, sweepVars>>

\* Server.Subscribe: store the element in the slot and return the new
\* handle.  When Serve has truncated the registry since SubscribeLen the
\* slot lies beyond its length.
SubscribeEnd ==
    /\ ~panicked
    /\ subPc = "store"
    /\ LET k == Len(subSnap) + 1 IN
         clzSubCh' = (IF k <= Len(clzSubCh)
                      THEN [clzSubCh EXCEPT ![k] = Len(chans) + 1]
                      ELSE clzSubCh)
    /\ chans' = Append(chans, 0)
    /\ issued' = Append(issued, IF subAt = "pre" /\ Phase # "pre"
                                 THEN "other" ELSE subAt)
    /\ subPc' = "idle"
    /\ subSnap' = <<>>
    /\ subAt' = "pre"
    /\ UNCHANGED <<serveVars, taskVars, stopVars, now, handlerVars, panicked>>
    /\ UNCHANGED <<typeVars, sweepVars>>

\* Stop guarded so that a call after the first returns without closing.
StopOnce ==
    /\ ~panicked
    /\ IF closeCh = "open"
       THEN closeCh' = "closed" /\ UNCHANGED panicked
       ELSE UNCHANGED <<closeCh, panicked>>
    /\ UNCHANGED <<serveVars, subVars, taskVars, now, handlerVars>>
    /\ UNCHANGED <<typeVars, sweepVars>>

\* Server.Stop: close(in.closeCh); closing a closed channel panics.
Stop ==
    /\ ~panicked
    /\ IF closeCh = "open"
       THEN closeCh' = "closed" /\ UNCHANGED panicked
       ELSE panicked' = TRUE /\ UNCHANGED closeCh
    /\ UNCHANGED <<serveVars, subVars, taskVars, now, handlerVars>>
    /\ UNCHANGED <<typeVars, sweepVars>>

\* ------------------------------------------------------------ Serve: start
\* The answers in.sche.Next(t) can give: the zero time or a later instant
\* (one of them beyond the last instant of the clock).
NextResults(t) == {Zero} \cup ((t + 1) .. (MaxTime + 1))

\* in.storage.Watch(NewMachine(), WatchOnKind).  On a nil in.storage the call
\* panics, and the deferred function runs while the panic unwinds Serve.
WatchMachine ==
    /\ ~panicked
    /\ pc = "init"
    /\ IF ~storage
       THEN /\ pc' = "unwindRange"
            /\ UNCHANGED <<err, machineObserver>>
       ELSE \E ok \in BOOLEAN :
              IF ok
              THEN /\ machineObserver' = "open"
                   /\ pc' = "watchDigest"
                   /\ UNCHANGED err
              ELSE /\ err' = "watch"
                   /\ pc' = "deferRange"
                   /\ UNCHANGED machineObserver
    /\ UNCHANGED <<digestObserver, autoDiscObserver, rangeLen, rangeIdx,
                   revalidate, sche, timer, iter, last, everConcrete, subVars,
                   taskVars, stopVars, now, handlerVars, panicked>>
    /\ UNCHANGED <<typeVars, sweepVars>>

\* WatchDigest with the failure of the Watch call logged and not returned.
WatchDigestErrorDropped ==
    /\ ~panicked
    /\ pc = "watchDigest"
    /\ \E ok \in BOOLEAN :
         IF ok
         THEN /\ digestObserver' = "open"
              /\ pc' = "watchAutoDisc"
         ELSE /\ pc' = "deferRange"
              /\ UNCHANGED digestObserver
    /\ UNCHANGED <<err, machineObserver, autoDiscObserver, rangeLen, rangeIdx,
                   revalidate, sche, timer, iter, last, everConcrete, subVars,
                   taskVars, stopVars, now, handlerVars, panicked>>
    /\ UNCHANGED <<typeVars, sweepVars>>

\* in.storage.Watch(NewMachineDigest(), WatchOnKind)
WatchDigest ==
    /\ ~panicked
    /\ pc = "watchDigest"
    /\ \E ok \in BOOLEAN :
         IF ok
         THEN /\ digestObserver' = "open"
              /\ pc' = "watchAutoDisc"
              /\ UNCHANGED err
         ELSE /\ err' = "watch"
              /\ pc' = "deferRange"
              /\ UNCHANGED digestObserver
    /\ UNCHANGED <<machineObserver, autoDiscObserver, rangeLen, rangeIdx,
                   revalidate, sche, timer, iter, last, everConcrete, subVars,
                   taskVars, stopVars, now, handlerVars, panicked>>
    /\ UNCHANGED <<typeVars, sweepVars>>

\* in.storage.Watch(NewDiscoveredMachines(), WatchOnName)
WatchAutoDisc ==
    /\ ~panicked
    /\ pc = "watchAutoDisc"
    /\ \E ok \in BOOLEAN :
         IF ok
         THEN /\ autoDiscObserver' = "open"
              /\ pc' = "arm"
              /\ UNCHANGED err
         ELSE /\ err' = "watch"
              /\ pc' = "deferRange"
              /\ UNCHANGED autoDiscObserver
    /\ UNCHANGED <<machineObserver, digestObserver, rangeLen, rangeIdx,
                   revalidate, sche, timer, iter, last, everConcrete, subVars,
                   taskVars, stopVars, now, handlerVars, panicked>>
    /\ UNCHANGED <<typeVars, sweepVars>>

\* The duration the timer is armed with for the schedule's answer next.
TimerDuration(next, t) == IF next = Zero THEN Minute ELSE next - t

\* The initial timer.
ArmTimer ==
    /\ ~panicked
    /\ pc = "arm"
    /\ \E next \in NextResults(now) :
         /\ sche' = next
         /\ revalidate' = (IF next = Zero THEN TRUE ELSE revalidate)
         /\ timer' = [active |-> TRUE, at |-> now,
                      d |-> TimerDuration(next, now)]
         /\ everConcrete' = (everConcrete \/ next # Zero)
    /\ pc' = "loop"
    /\ UNCHANGED <<err, machineObserver, digestObserver, autoDiscObserver,
                   rangeLen, rangeIdx, iter, last, subVars, taskVars, stopVars,
                   now, handlerVars, panicked>>
    /\ UNCHANGED <<typeVars, sweepVars>>

\* ------------------------------------------------------- Serve: main loop
\* The goroutine one go statement starts: work is the entry of that
\* statement, or empty when the iteration reaches none.  Each go statement
\* reads in.Handler itself.
Started(work) ==
    IF work = <<>>
    THEN EmptyBag
    ELSE SetToBag({[fn |-> work[1].fn, value |-> work[1].value,
                    st |-> "start", pool |-> Bound]})

\* Spawn with the handlers called in the loop's own goroutine: the loop cannot
\* take its next input before the call it made has returned.
SpawnInline(work) ==
    /\ tasks = EmptyBag
    /\ tasks' = tasks (+) Started(work)
    /\ UNCHANGED lastRun

\* go f(...): the new goroutine of one go statement.
Spawn(work) ==
    /\ tasks' = tasks (+) Started(work)
    /\ UNCHANGED lastRun

\* Fatal with the ERROR case of the third stream breaking out as well.
FatalOnEveryStream(src, type) == type = ERROR

\* Fatal with the receive from a closed channel taken for the end of the
\* watch: the zero event breaks out like ERROR.
FatalOnEndOfStream(src, type) ==
    /\ src \in {"machine", "digest"}
    /\ type \in {ERROR, 0}

\* Whether an event of this type on this stream breaks out of the loop.
Fatal(src, type) ==
    /\ src \in {"machine", "digest"}
    /\ type = ERROR

\* EventWork with the digest handler started for UPDATE as well as CREATE.
EventWorkOnDigestUpdate(src, type, value) ==
    IF src = "digest" /\ type \in {CREATE, UPDATE}
    THEN <<[fn |-> "refreshMachineSnapshotOnEvent", value |-> value]>>
    ELSE IF src = "autoDisc" /\ type \in {CREATE, UPDATE}
    THEN <<[fn |-> "refreshDicoveredMachinesOnEvent", value |-> value]>>
    ELSE <<>>

\* The goroutines an event of this type on this stream starts.
EventWork(src, type, value) ==
    IF src = "digest" /\ type = CREATE
    THEN <<[fn |-> "refreshMachineSnapshotOnEvent", value |-> value]>>
    ELSE IF src = "autoDisc" /\ type \in {CREATE, UPDATE}
    THEN <<[fn |-> "refreshDicoveredMachinesOnEvent", value |-> value]>>
    ELSE <<>>

\* TimerWork without the test of the flag.
TimerWorkUnguarded(rv) ==
    <<[fn |-> "createMachineDigestOnTime", value |-> <<>>],
      [fn |-> "autoDiscoveryOnTime", value |-> <<>>]>>

\* The goroutines a timer tick starts, given the flag the tick has just set.
TimerWork(rv) ==
    IF ~rv
    THEN <<[fn |-> "createMachineDigestOnTime", value |-> <<>>],
           [fn |-> "autoDiscoveryOnTime", value |-> <<>>]>>
    ELSE <<>>

\* The watcher whose output channel the loop reads as stream src.
StreamOf(src) ==
    IF src = "machine" THEN machineObserver
    ELSE IF src = "digest" THEN digestObserver
    ELSE autoDiscObserver

\* One iteration that receives an event from a watch stream.  A receive from
\* a channel that has been closed yields the zero WatchEvent.
Receive(src, type, value) ==
    /\ ~panicked
    /\ pc = "loop"
    /\ Inputs < MaxInputs
    /\ StreamOf(src) = "ended" => type = 0
    /\ iter' = iter + 1
    /\ last' = [src |-> src, type |-> type]
    /\ Spawn(EventWork(src, type, value))
    /\ pc' = (IF Fatal(src, type) THEN "cleanup" ELSE "loop")
    /\ UNCHANGED <<err, machineObserver, digestObserver, autoDiscObserver,
                   rangeLen, rangeIdx, revalidate, sche, timer, everConcrete,
                   subVars, stopVars, now, handlerVars, panicked>>
    /\ UNCHANGED <<typeVars, sweepVars>>

\* case <-in.closeCh
LoopStop ==
    /\ ~panicked
    /\ pc = "loop"
    /\ closeCh = "closed"
    /\ pc' = "cleanup"
    /\ UNCHANGED <<err, machineObserver, digestObserver, autoDiscObserver,
                   rangeLen, rangeIdx, revalidate, sche, timer, iter, last,
                   everConcrete, subVars, taskVars, stopVars, now, handlerVars,
                   panicked>>
    /\ UNCHANGED <<typeVars, sweepVars>>

\* case event := <-machineEventChan
LoopMachineEvent ==
    \E type \in EventTypes, value \in Values : Receive("machine", type, value)

\* case event := <-digestEventChan
LoopDigestEvent ==
    \E type \in EventTypes, value \in Values : Receive("digest", type, value)

\* case event := <-autoDiscEventChan
LoopAutoDiscEvent ==
    \E type \in EventTypes, value \in Values : Receive("autoDisc", type, value)

\* The first go statement of the goroutines a tick starts, and the one after
\* it.
FirstGo(work) == IF work = <<>> THEN <<>> ELSE <<Head(work)>>

RestGo(work) == IF work = <<>> THEN <<>> ELSE Tail(work)

\* case <-timer.C, up to its first go statement: the timer fires when its
\* duration has elapsed, and the clock then reads that instant.
LoopTimer ==
    /\ ~panicked
    /\ pc = "loop"
    /\ Inputs < MaxInputs
    /\ timer.active
    /\ timer.at + timer.d <= MaxTime
    /\ now' = timer.at + timer.d
    /\ \E next \in NextResults(now') :
         /\ sche' = next
         /\ revalidate' = (next = Zero)
         /\ timer' = [active |-> TRUE, at |-> now',
                      d |-> TimerDuration(next, now')]
         /\ everConcrete' = (everConcrete \/ next # Zero)
         /\ LET work == TimerWork(next = Zero) IN
              /\ Spawn(FirstGo(work))
              /\ pc' = (IF RestGo(work) # <<>> THEN "goAutoDisc" ELSE "loop")
    /\ last' = [src |-> "timer", type |-> 0]
    /\ iter' = iter + 1
    /\ UNCHANGED <<err, machineObserver, digestObserver, autoDiscObserver,
                   rangeLen, rangeIdx, subVars, stopVars, handlerVars, panicked>>
    /\ UNCHANGED <<typeVars, sweepVars>>

\* go in.Handler.autoDiscoveryOnTime(), the second go statement of a tick.
GoAutoDiscoveryOnTime ==
    /\ ~panicked
    /\ pc = "goAutoDisc"
    /\ Spawn(RestGo(TimerWork(FALSE)))
    /\ pc' = "loop"
    /\ UNCHANGED <<err, machineObserver, digestObserver, autoDiscObserver,
                   rangeLen, rangeIdx, revalidate, sche, timer, iter, last,
                   everConcrete, subVars, stopVars, now, handlerVars,
                   panicked>>
    /\ UNCHANGED <<typeVars, sweepVars>>

\* The storage ends a stream: it closes the watcher's output channel without
\* having sent an ERROR event.
EndStream(src) ==
    /\ ~panicked
    /\ StreamOf(src) = "open"
    /\ machineObserver' = (IF src = "machine" THEN "ended" ELSE machineObserver)
    /\ digestObserver' = (IF src = "digest" THEN "ended" ELSE digestObserver)
    /\ autoDiscObserver' = (IF src = "autoDisc" THEN "ended" ELSE autoDiscObserver)
    /\ UNCHANGED <<pc, err, rangeLen, rangeIdx, revalidate, sche, timer, iter,
                   last, everConcrete, subVars, taskVars, stopVars, now,
                   handlerVars, panicked>>
    /\ UNCHANGED <<typeVars, sweepVars>>

EndMachineStream == EndStream("machine")

EndDigestStream == EndStream("digest")

EndAutoDiscStream == EndStream("autoDisc")

\* ------------------------------------------------------------- Serve: exit
\* The observers Serve closes after the loop.
ClosedOnExit == {"machine", "digest"}

AfterExit(name, w) == IF name \in ClosedOnExit THEN "closed" ELSE w

\* RangeOver with a range that stops one short of the last subscriber.
RangeOverOneShort(slice) == IF Len(slice) > 0 THEN Len(slice) - 1 ELSE 0

\* for i := range slice: the slice is evaluated once, and so is its length.
RangeOver(slice) == Len(slice)

\* Cleanup with the goroutines still pending cancelled before the return.
CleanupCancelling ==
    /\ ~panicked
    /\ pc = "cleanup"
    /\ timer' = [timer EXCEPT !.active = FALSE]
    /\ machineObserver' = AfterExit("machine", machineObserver)
    /\ digestObserver' = AfterExit("digest", digestObserver)
    /\ autoDiscObserver' = AfterExit("autoDisc", autoDiscObserver)
    /\ rangeLen' = RangeOver(clzSubCh)
    /\ rangeIdx' = 0
    /\ pc' = "deferClose"
    /\ tasks' = EmptyBag
    /\ UNCHANGED <<err, revalidate, sche, iter, last, everConcrete, subVars,
                   lastRun, stopVars, now, handlerVars, panicked>>
    /\ UNCHANGED <<typeVars, sweepVars>>

\* After the loop: timer.Stop(), the Close calls, return nil; the deferred
\* function starts with its range statement.
Cleanup ==
    /\ ~panicked
    /\ pc = "cleanup"
    /\ timer' = [timer EXCEPT !.active = FALSE]
    /\ machineObserver' = AfterExit("machine", machineObserver)
    /\ digestObserver' = AfterExit("digest", digestObserver)
    /\ autoDiscObserver' = AfterExit("autoDisc", autoDiscObserver)
    /\ rangeLen' = RangeOver(clzSubCh)
    /\ rangeIdx' = 0
    /\ pc' = "deferClose"
    /\ UNCHANGED <<err, revalidate, sche, iter, last, everConcrete, subVars,
                   taskVars, stopVars, now, handlerVars, panicked>>
    /\ UNCHANGED <<typeVars, sweepVars>>

\* DeferRange with the defer statement placed after the Watch calls: a failed
\* Watch returns before the function is deferred.
DeferNotYetRegistered ==
    /\ ~panicked
    /\ pc = "deferRange"
    /\ pc' = "done"
    /\ UNCHANGED <<err, machineObserver, digestObserver, autoDiscObserver,
                   rangeLen, rangeIdx, revalidate, sche, timer, iter, last,
                   everConcrete, subVars, taskVars, stopVars, now, handlerVars,
                   panicked>>
    /\ UNCHANGED <<typeVars, sweepVars>>

\* The deferred function after a failed Watch, or while a panic unwinds
\* Serve: its range statement.
DeferRange ==
    /\ ~panicked
    /\ pc \in {"deferRange", "unwindRange"}
    /\ rangeLen' = RangeOver(clzSubCh)
    /\ rangeIdx' = 0
    /\ pc' = (IF pc = "unwindRange" THEN "unwindClose" ELSE "deferClose")
    /\ UNCHANGED <<err, machineObserver, digestObserver, autoDiscObserver,
                   revalidate, sche, timer, iter, last, everConcrete, subVars,
                   taskVars, stopVars, now, handlerVars, panicked>>
    /\ UNCHANGED <<typeVars, sweepVars>>

\* close(in.clzSubCh[i]) for the next i; closing a nil channel or a closed
\* channel panics.
DeferClose ==
    /\ ~panicked
    /\ pc \in {"deferClose", "unwindClose"}
    /\ rangeIdx < rangeLen
    /\ LET h == clzSubCh[rangeIdx + 1] IN
         IF h # NilChan /\ chans[h] = 0
         THEN chans' = [chans EXCEPT ![h] = 1] /\ UNCHANGED panicked
         ELSE panicked' = TRUE /\ UNCHANGED chans
    /\ rangeIdx' = rangeIdx + 1
    /\ UNCHANGED <<pc, err, machineObserver, digestObserver, autoDiscObserver,
                   rangeLen, revalidate, sche, timer, iter, last, everConcrete,
                   clzSubCh, issued, subPc, subSnap, subAt, taskVars,
                   stopVars, now, handlerVars>>
    /\ UNCHANGED <<typeVars, sweepVars>>

\* in.clzSubCh = in.clzSubCh[:0], and Serve returns; when a panic is
\* unwinding Serve the process dies instead.
DeferClear ==
    /\ ~panicked
    /\ pc \in {"deferClose", "unwindClose"}
    /\ rangeIdx = rangeLen
    /\ clzSubCh' = <<>>
    /\ IF pc = "unwindClose"
       THEN panicked' = TRUE /\ UNCHANGED pc
       ELSE pc' = "done" /\ UNCHANGED panicked
    /\ UNCHANGED <<err, machineObserver, digestObserver, autoDiscObserver,
                   rangeLen, rangeIdx, revalidate, sche, timer, iter, last,
                   everConcrete, chans, issued, subPc, subSnap, subAt,
                   taskVars, stopVars, now, handlerVars>>
    /\ UNCHANGED <<typeVars, sweepVars>>

\* -------------------------------------------------- dispatched goroutines
\* The results a storage call can have: success, a failure that
\* IsInternalError rejects, a failure it accepts.
StorageResults == {"nil", "other", "internal"}

\* Goroutine t returns.
Finish(t) == tasks' = tasks (-) SetToBag({t})

\* Goroutine t moves to position st.
Goto(t, st) ==
    tasks' = (tasks (-) SetToBag({t})) (+) SetToBag({[t EXCEPT !.st = st]})

\* The first statement of every handler, defer in.logger.Sync(), on a nil
\* receiver: in.logger dereferences nil and the process dies.
NilReceiver(t) ==
    /\ t.pool = NoHandler
    /\ panicked' = TRUE
    /\ UNCHANGED tasks

\* Handler.createMachineDigestOnTime: one Create, its failure only logged.
RunCreateDigest ==
    /\ ~panicked
    /\ \E t \in BagToSet(tasks) :
         /\ t.fn = "createMachineDigestOnTime"
         /\ \/ NilReceiver(t)
            \/ /\ t.pool # NoHandler
               /\ \E r \in StorageResults : Finish(t)
               /\ UNCHANGED panicked
    /\ UNCHANGED <<serveVars, subVars, lastRun, stopVars, now, handlerVars>>
    /\ UNCHANGED <<typeVars, sweepVars>>

\* What autoDiscoveryOnTime does at RETRY with the latest result r: call
\* Create and come back, or return.
AfterStorage(t, r) ==
    IF r # "nil" /\ r # "internal" THEN Goto(t, "retry") ELSE Finish(t)

\* Handler.autoDiscoveryOnTime: in.storage.Update(latest), then RETRY.
RunAutoDiscUpdate ==
    /\ ~panicked
    /\ \E t \in BagToSet(tasks) :
         /\ t.fn = "autoDiscoveryOnTime"
         /\ t.st = "start"
         /\ \/ NilReceiver(t)
            \/ /\ t.pool # NoHandler
               /\ \E r \in StorageResults : AfterStorage(t, r)
               /\ UNCHANGED panicked
    /\ UNCHANGED <<serveVars, subVars, lastRun, stopVars, now, handlerVars>>
    /\ UNCHANGED <<typeVars, sweepVars>>

\* Handler.autoDiscoveryOnTime: in.storage.Create(latest), goto RETRY.
RunAutoDiscCreate ==
    /\ ~panicked
    /\ \E t \in BagToSet(tasks) :
         /\ t.fn = "autoDiscoveryOnTime"
         /\ t.st = "retry"
         /\ \E r \in StorageResults : AfterStorage(t, r)
    /\ UNCHANGED <<serveVars, subVars, lastRun, stopVars, now, handlerVars,
                   panicked>>
    /\ UNCHANGED <<typeVars, sweepVars>>

\* NotifyCalls with the object handed to every registered executor.
RECURSIVE Broadcast(_, _, _)
Broadcast(entry, guid, n) ==
    IF n = 0
    THEN <<>>
    ELSE Append(Broadcast(entry, guid, n - 1),
                [exec |-> n, entry |-> entry, guid |-> guid])

NotifyCallsToAll(entry, guid, n) == {Broadcast(entry, guid, n)}

\* The executor calls a handler makes for a decoded object when its pool has
\* n executors: one, on in.executor[rand.Intn(len(in.executor))].
NotifyCalls(entry, guid, n) ==
    {<<[exec |-> e, entry |-> entry, guid |-> guid]>> : e \in 1 .. n}

\* Notify without the return on a decode failure.
NotifyAfterFailedDecode(t, entry) ==
    LET u == Unmarshal(t.value) IN
    IF t.pool = NoHandler
    THEN NilReceiver(t) /\ UNCHANGED lastRun
    ELSE IF PoolSize(t) = 0
    THEN panicked' = TRUE /\ UNCHANGED <<tasks, lastRun>>
    ELSE /\ \E cs \in NotifyCalls(entry, u.guid, PoolSize(t)) :
              lastRun' = [fn |-> t.fn, value |-> t.value, calls |-> cs]
         /\ Finish(t)
         /\ UNCHANGED panicked

\* The body shared by the two event handlers: decode, drop the event on
\* failure, else notify.  rand.Intn(0) panics.
Notify(t, entry) ==
    LET u == Unmarshal(t.value) IN
    IF t.pool = NoHandler
    THEN NilReceiver(t) /\ UNCHANGED lastRun
    ELSE IF u.err
    THEN /\ Finish(t)
         /\ lastRun' = [fn |-> t.fn, value |-> t.value, calls |-> <<>>]
         /\ UNCHANGED panicked
    ELSE IF PoolSize(t) = 0
    THEN panicked' = TRUE /\ UNCHANGED <<tasks, lastRun>>
    ELSE /\ \E cs \in NotifyCalls(entry, u.guid, PoolSize(t)) :
              lastRun' = [fn |-> t.fn, value |-> t.value, calls |-> cs]
         /\ Finish(t)
         /\ UNCHANGED panicked

\* Handler.refreshMachineSnapshotOnEvent
RunRefreshMachineSnapshot ==
    /\ ~panicked
    /\ \E t \in BagToSet(tasks) :
         /\ t.fn = "refreshMachineSnapshotOnEvent"
         /\ Notify(t, "NotifyDigest")
    /\ UNCHANGED <<serveVars, subVars, stopVars, now, handlerVars>>
    /\ UNCHANGED <<typeVars, sweepVars>>

\* Handler.refreshDicoveredMachinesOnEvent
RunRefreshDicoveredMachines ==
    /\ ~panicked
    /\ \E t \in BagToSet(tasks) :
         /\ t.fn = "refreshDicoveredMachinesOnEvent"
         /\ Notify(t, "NotifyDiscoveredMachines")
    /\ UNCHANGED <<serveVars, subVars, stopVars, now, handlerVars>>
    /\ UNCHANGED <<typeVars, sweepVars>>

\* ---------------------------------------------------------- specification
Next ==
    \/ PrepareStorage
    \/ PrepareHandler
    \/ RegisterExecutor
    \/ SubscribeBegin
    \/ SubscribeLen
    \/ SubscribeEnd
    \/ Stop
    \/ WatchMachine
    \/ WatchDigest
    \/ WatchAutoDisc
    \/ ArmTimer
    \/ LoopStop
    \/ LoopMachineEvent
    \/ LoopDigestEvent
    \/ LoopAutoDiscEvent
    \/ LoopTimer
    \/ GoAutoDiscoveryOnTime
    \/ Cleanup
    \/ DeferRange
    \/ DeferClose
    \/ DeferClear
    \/ RunCreateDigest
    \/ RunAutoDiscUpdate
    \/ RunAutoDiscCreate
    \/ RunRefreshMachineSnapshot
    \/ RunRefreshDicoveredMachines

Spec == Init /\ [][Next]_vars

\* The Go scheduler runs the Serve goroutine whenever it can take a step, and
\* select takes the stop case with positive probability each time it is ready.
Fairness ==
    /\ WF_vars(GoAutoDiscoveryOnTime)
    /\ WF_vars(LoopStop)
    /\ WF_vars(Cleanup)
    /\ WF_vars(DeferRange)
    /\ WF_vars(DeferClose)
    /\ WF_vars(DeferClear)

FairSpec == Spec /\ Fairness

\* One call of WatchEventType.String on any value of the type.
StringInit ==
    /\ ServerInit
    /\ of \in 0 .. MaxByte
    /\ shown = ""
    /\ backend = "none"
    /\ store = <<>>
    /\ sweeps = <<>>

StringCall ==
    /\ shown = ""
    /\ shown' = String(of)
    /\ UNCHANGED <<of, serverVars, sweepVars>>

StringSpec == StringInit /\ [][StringCall]_vars

\* ------------------------------------------- the discovery sweep, in steps
\* Largest number of sweeps the ticks start.
MaxSweeps == 3

\* genericStorage.IsInternalError
IsInternalError(e) == e = "internal"

\* The test at RETRY: err != nil and not an internal error.
RetryTest(e) == e # "nil" /\ ~IsInternalError(e)

\* in.storage.Update(latest) with latest.State = StartedState: the error it
\* returns and the records it leaves.  The singleton backend has no record to
\* update when the singleton is absent; the faulty backend may answer
\* anything and its records are not followed.
UpdateOutcomes ==
    IF backend = "singleton"
    THEN IF store = <<>>
         THEN {[err |-> "notfound", store |-> store]}
         ELSE {[err |-> "nil", store |-> [k \in DOMAIN store |-> "Started"]]}
    ELSE {[err |-> r, store |-> store] : r \in StorageResults}

\* in.storage.Create(latest): the singleton backend refuses a second record.
CreateOutcomes ==
    IF backend = "singleton"
    THEN IF store = <<>>
         THEN {[err |-> "nil", store |-> Append(store, "Started")]}
         ELSE {[err |-> "exists", store |-> store]}
    ELSE {[err |-> r, store |-> store] : r \in StorageResults}

\* The backends, and the records the singleton backend can hold at first:
\* none, or the singleton in the Started or in another State.
SweepInit ==
    /\ ServerInit
    /\ of = 0
    /\ shown = ""
    /\ backend \in {"faulty", "singleton"}
    /\ store \in (IF backend = "singleton"
                  THEN {<<>>, <<"Started">>, <<"Stopped">>}
                  ELSE {<<>>})
    /\ sweeps = <<>>

\* go in.Handler.autoDiscoveryOnTime(), from a tick of the loop.
SweepDispatch ==
    /\ Len(sweeps) < MaxSweeps
    /\ sweeps' = Append(sweeps, [pc |-> "update", err |-> "nil",
                                 call |-> "none"])
    /\ UNCHANGED <<backend, store, serverVars, typeVars>>

\* err := in.storage.Update(latest)
SweepUpdate(i) ==
    /\ i \in DOMAIN sweeps
    /\ sweeps[i].pc = "update"
    /\ \E o \in UpdateOutcomes :
         /\ sweeps' = [sweeps EXCEPT ![i] = [pc |-> "retry", err |-> o.err,
                                             call |-> "Update"]]
         /\ store' = o.store
    /\ UNCHANGED <<backend, serverVars, typeVars>>

\* RETRY: the test of err; on to the Create call, or log and return.
SweepRetry(i) ==
    /\ i \in DOMAIN sweeps
    /\ sweeps[i].pc = "retry"
    /\ sweeps' = [sweeps EXCEPT ![i].pc =
                    IF RetryTest(sweeps[i].err) THEN "create" ELSE "return"]
    /\ UNCHANGED <<backend, store, serverVars, typeVars>>

\* err = in.storage.Create(latest); goto RETRY
SweepCreate(i) ==
    /\ i \in DOMAIN sweeps
    /\ sweeps[i].pc = "create"
    /\ \E o \in CreateOutcomes :
         /\ sweeps' = [sweeps EXCEPT ![i] = [pc |-> "retry", err |-> o.err,
                                             call |-> "Create"]]
         /\ store' = o.store
    /\ UNCHANGED <<backend, serverVars, typeVars>>

SweepNext ==
    \/ SweepDispatch
    \/ \E i \in 1 .. MaxSweeps : SweepUpdate(i)
    \/ \E i \in 1 .. MaxSweeps : SweepRetry(i)
    \/ \E i \in 1 .. MaxSweeps : SweepCreate(i)

SweepSpec == SweepInit /\ [][SweepNext]_vars

\* The Go scheduler runs every goroutine that can take a step, and the
\* storage answers every call.
SweepFairness ==
    \A i \in 1 .. MaxSweeps :
        /\ WF_vars(SweepUpdate(i))
        /\ WF_vars(SweepRetry(i))
        /\ WF_vars(SweepCreate(i))

FairSweepSpec == SweepSpec /\ SweepFairness

\* The server with storage that may end its watch streams, run without
\* completion subscribers: the deferred function finds the registry empty and
\* closes nothing.
EndNext ==
    \/ PrepareStorage
    \/ PrepareHandler
    \/ RegisterExecutor
    \/ Stop
    \/ WatchMachine
    \/ WatchDigest
    \/ WatchAutoDisc
    \/ ArmTimer
    \/ LoopStop
    \/ LoopMachineEvent
    \/ LoopDigestEvent
    \/ LoopAutoDiscEvent
    \/ LoopTimer
    \/ GoAutoDiscoveryOnTime
    \/ Cleanup
    \/ DeferRange
    \/ DeferClear
    \/ RunCreateDigest
    \/ RunAutoDiscUpdate
    \/ RunAutoDiscCreate
    \/ RunRefreshMachineSnapshot
    \/ RunRefreshDicoveredMachines
    \/ EndMachineStream
    \/ EndDigestStream
    \/ EndAutoDiscStream

EndSpec == Init /\ [][EndNext]_vars

\* ================================================================ claims
Handles == DOMAIN chans

Registered == {clzSubCh[i] : i \in DOMAIN clzSubCh}

Observers == <<machineObserver, digestObserver, autoDiscObserver>>

PeriodicFns == {"createMachineDigestOnTime", "autoDiscoveryOnTime"}

EventFns == {"refreshMachineSnapshotOnEvent", "refreshDicoveredMachinesOnEvent"}

\* The bag of one goroutine that is about to run fn on an event value.
OneTask(fn, value) ==
    SetToBag({[fn |-> fn, value |-> value, st |-> "start", pool |-> Bound]})

\* Serve has left its main loop, or returned without entering it.
Exited == pc \in {"cleanup", "deferRange", "deferClose", "done"}

\* The latest step was a loop iteration that received from src.
Received(src) == iter' = iter + 1 /\ last'.src = src

\* C1: when Serve returns after having run its main loop, none of the three
\* watch subscriptions it opened is still open.
C1_AllObserversClosed ==
    (pc = "done" /\ err = "nil") =>
        \A k \in 1 .. 3 : Observers[k] # "open"

\* C2: when Serve returns a watch-establishment failure, it has never
\* entered the main loop and every subscription it had opened is closed.
C2_FailedStartReleasesObservers ==
    (pc = "done" /\ err = "watch") =>
        /\ iter = 0
        /\ timer.at = 0
        /\ \A k \in 1 .. 3 : Observers[k] # "open"

\* C3: when every Subscribe call was made before Serve started, then after
\* Stop and Serve's return every handle has been notified exactly once and
\* the registry is empty.
C3_SubscribersNotifiedOnce ==
    (/\ pc = "done"
     /\ closeCh = "closed"
     /\ subPc = "idle"
     /\ \A h \in Handles : issued[h] = "pre")
    => /\ clzSubCh = <<>>
       /\ \A h \in Handles : chans[h] = 1

C3_Witness ==
    /\ pc = "done"
    /\ err = "nil"
    /\ closeCh = "closed"
    /\ ~panicked
    /\ subPc = "idle"
    /\ issued = <<"pre", "pre">>
    /\ chans = <<1, 1>>

\* C4: an ERROR event on the machine or the digest stream ends the loop in
\* the iteration that receives it and nothing is received afterwards; an
\* ERROR event on the discovered-machines stream starts no goroutine and
\* leaves the loop running, able to receive the next event.
C4_ErrorAsymmetry ==
    /\ [][(iter' = iter + 1 /\ last'.type = ERROR) =>
            IF last'.src \in {"machine", "digest"}
            THEN pc' = "cleanup" /\ tasks' = tasks
            ELSE pc' = "loop" /\ tasks' = tasks]_vars
    /\ [][Exited => (iter' = iter /\ Exited')]_vars
    /\ []((/\ pc = "loop"
           /\ last = [src |-> "autoDisc", type |-> ERROR]
           /\ ~panicked
           /\ Inputs < MaxInputs)
          => ENABLED LoopDigestEvent)

C4_Witness ==
    /\ pc = "loop"
    /\ iter = 2
    /\ last = [src |-> "autoDisc", type |-> ERROR]

\* C5: as long as the schedule has only ever answered the zero time, no
\* periodic goroutine has been started and the timer is armed, at the
\* instant of the latest query, for one minute.
C5_IndefiniteNeverDispatches ==
    ~everConcrete =>
        /\ \A t \in BagToSet(tasks) : t.fn \notin PeriodicFns
        /\ timer.active => (timer.d = Minute /\ timer.at = now /\ revalidate)

C5_Witness ==
    /\ ~everConcrete
    /\ pc = "loop"
    /\ last.src = "timer"
    /\ iter = 2
    /\ now = 3

\* C6: a tick of a timer that was armed for a concrete activation starts
\* exactly the two periodic goroutines, and a tick of the revalidation timer
\* starts none.
C6_DispatchAtActivation ==
    /\ [][Received("timer") =>
            IF sche # Zero
            THEN /\ tasks' = tasks (+) OneTask("createMachineDigestOnTime", <<>>)
                 /\ pc' = "goAutoDisc"
            ELSE tasks' = tasks /\ pc' = "loop"]_vars
    /\ [][(pc = "goAutoDisc" /\ pc' # pc) =>
            /\ tasks' = tasks (+) OneTask("autoDiscoveryOnTime", <<>>)
            /\ pc' = "loop"]_vars

\* C7: a handler whose event payload fails to decode makes no executor call,
\* and neither its run nor the receipt of its event ends the loop; such a
\* handler, started on the handler Prepare attached, can return and cannot
\* end in a panic.
C7_UndecodableNeverNotified ==
    /\ []((lastRun.fn # "none" /\ Unmarshal(lastRun.value).err)
          => lastRun.calls = <<>>)
    /\ [](~panicked =>
            \A t \in BagToSet(tasks) :
                (t.fn \in EventFns /\ Unmarshal(t.value).err
                 /\ t.pool # NoHandler) =>
                    /\ ENABLED (/\ Notify(t, "NotifyDigest")
                                /\ tasks' = tasks (-) SetToBag({t}))
                    /\ ~ENABLED (Notify(t, "NotifyDigest") /\ panicked'))
    /\ [][\A t \in BagToSet(tasks) :
            (/\ t.fn \in EventFns
             /\ Unmarshal(t.value).err
             /\ tasks' = tasks (-) SetToBag({t}))
            => /\ lastRun' = [fn |-> t.fn, value |-> t.value, calls |-> <<>>]
               /\ pc' = pc
               /\ ~panicked']_vars
    /\ [][(iter' = iter + 1 /\ last'.type \in {CREATE, UPDATE}) =>
            pc' = "loop"]_vars

C7_Witness ==
    /\ lastRun.fn = "refreshDicoveredMachinesOnEvent"
    /\ Unmarshal(lastRun.value).err
    /\ pc = "loop"
    /\ iter = 2
    /\ last.src = "timer"

\* The one call a handler owes a decodable event: on one of the n executors
\* registered with it, at the handler's own entry point, with the decoded
\* identifier.
OwedCall(calls, entry, value, n) ==
    /\ Len(calls) = 1
    /\ calls[1].exec \in 1 .. n
    /\ calls[1].entry = entry
    /\ calls[1].guid = Unmarshal(value).guid

EntryOf(fn) ==
    IF fn = "refreshMachineSnapshotOnEvent"
    THEN "NotifyDigest"
    ELSE "NotifyDiscoveredMachines"

\* C8: a digest CREATE event starts exactly one digest handler and a
\* discovered-machines CREATE or UPDATE event exactly one discovery handler;
\* a handler that decodes its event and returns has made exactly one call,
\* on one of the executors registered with it when it ran, at its own entry
\* point, with the decoded identifier; a pending handler whose pool is not
\* empty can make that call on each executor of the pool, and while no
\* pending handler has an empty pool no handler run ends in a panic.
C8_OneCallPerEvent ==
    /\ [](~panicked =>
            \A t \in BagToSet(tasks) :
                (t.fn \in EventFns /\ ~Unmarshal(t.value).err) =>
                    \A e \in 1 .. PoolSize(t) :
                        ENABLED (/\ RunRefreshMachineSnapshot
                                    \/ RunRefreshDicoveredMachines
                                 /\ tasks' = tasks (-) SetToBag({t})
                                 /\ lastRun' =
                                      [fn |-> t.fn, value |-> t.value,
                                       calls |-> <<[exec |-> e,
                                                    entry |-> EntryOf(t.fn),
                                                    guid |-> Unmarshal(t.value).guid]>>]))
    /\ []((/\ ~panicked
           /\ \A t \in BagToSet(tasks) : t.fn \in EventFns => PoolSize(t) >= 1)
          => ~ENABLED (/\ RunRefreshMachineSnapshot \/ RunRefreshDicoveredMachines
                       /\ panicked'))
    /\ []((lastRun.fn # "none" /\ ~Unmarshal(lastRun.value).err)
          => OwedCall(lastRun.calls, EntryOf(lastRun.fn), lastRun.value,
                      MaxExec))
    /\ [][\A t \in BagToSet(tasks) :
            (/\ t.fn \in EventFns
             /\ ~Unmarshal(t.value).err
             /\ tasks' = tasks (-) SetToBag({t}))
            => /\ lastRun'.fn = t.fn
               /\ lastRun'.value = t.value
               /\ PoolSize(t) >= 1
               /\ OwedCall(lastRun'.calls, EntryOf(t.fn), t.value,
                           PoolSize(t))]_vars
    /\ [][(Received("digest") /\ last'.type = CREATE) =>
            \E v \in Values :
                tasks' = tasks (+) OneTask("refreshMachineSnapshotOnEvent", v)]_vars
    /\ [][(Received("autoDisc") /\ last'.type \in {CREATE, UPDATE}) =>
            \E v \in Values :
                tasks' = tasks (+) OneTask("refreshDicoveredMachinesOnEvent", v)]_vars

C8_Witness ==
    /\ executor = 2
    /\ lastRun = [fn |-> "refreshMachineSnapshotOnEvent",
                  value |-> Encode("m1"),
                  calls |-> <<[exec |-> 2, entry |-> "NotifyDigest",
                               guid |-> "m1"]>>]

\* C9: with the stop signal raised while the loop runs, the loop receives
\* no further watch event and no further tick.
C9_NothingReceivedAfterStop ==
    [][(InLoop /\ closeCh = "closed") => iter' = iter]_vars

\* C10: no handle whose Subscribe call was made while Serve was in its main
\* loop is out of the registry without having been notified.
C10_NoHandleDropped ==
    \A h \in Handles :
        (issued[h] = "running" /\ h \notin Registered) => chans[h] = 1

\* The loop is ready for its next input: in the main loop, alive, and within
\* the bound on inputs.
LoopReady == pc = "loop" /\ ~panicked /\ Inputs < MaxInputs

\* C11: with goroutines started and not finished, however many and for
\* however long, the loop still takes every watch event and every due tick,
\* still starts a new goroutine for a dispatching event or tick, and still
\* leaves on the stop signal.
C11_StuckTasksDoNotBlock ==
    /\ (pc = "goAutoDisc" /\ ~panicked /\ tasks # EmptyBag) =>
        ENABLED (/\ GoAutoDiscoveryOnTime
                 /\ pc' = "loop"
                 /\ tasks' = tasks (+) OneTask("autoDiscoveryOnTime", <<>>))
    /\ (pc = "loop" /\ ~panicked /\ tasks # EmptyBag) =>
        /\ closeCh = "closed" => ENABLED LoopStop
        /\ LoopReady =>
             /\ \A type \in EventTypes, value \in Values :
                    /\ ENABLED Receive("machine", type, value)
                    /\ ENABLED Receive("digest", type, value)
                    /\ ENABLED Receive("autoDisc", type, value)
             /\ \A value \in Values :
                    /\ ENABLED (/\ Receive("digest", CREATE, value)
                                /\ tasks' = tasks (+)
                                     OneTask("refreshMachineSnapshotOnEvent", value))
                    /\ ENABLED (/\ Receive("autoDisc", UPDATE, value)
                                /\ tasks' = tasks (+)
                                     OneTask("refreshDicoveredMachinesOnEvent", value))
             /\ (timer.active /\ timer.at + timer.d <= MaxTime) =>
                    /\ ENABLED LoopTimer
                    /\ ENABLED (/\ LoopTimer
                                /\ pc' = "goAutoDisc"
                                /\ tasks' = tasks (+)
                                     OneTask("createMachineDigestOnTime", <<>>))

\* Three goroutines pending at once: the two of a tick, then the one of an
\* event received while they had not finished.
C11_Witness ==
    /\ pc = "loop"
    /\ ~panicked
    /\ iter = 2
    /\ BagCardinality(tasks) = 3
    /\ last.src # "timer"

\* C12: Serve returns an error exactly when one of the three Watch calls
\* failed; once it has entered the main loop it returns nil, whether it left
\* on the stop signal or on a fatal ERROR event, and nothing but a failing
\* Watch call ever sets the result.
C12_ErrorOnlyFromWatch ==
    /\ [](pc = "done" => (err # "nil" <=> autoDiscObserver = "nil"))
    /\ [](pc = "done" => (err = "nil" <=> timer.at # 0))
    /\ []((pc = "done" /\ iter > 0) => err = "nil")
    /\ [][err' # err =>
            /\ pc \in {"init", "watchDigest", "watchAutoDisc"}
            /\ pc' = "deferRange"
            /\ err = "nil"
            /\ err' = "watch"]_vars

\* Serve has returned nil after a fatal ERROR event, with no stop signal, and
\* a handler had failed to decode its event before.
C12_Witness ==
    /\ pc = "done"
    /\ err = "nil"
    /\ closeCh = "open"
    /\ last = [src |-> "digest", type |-> ERROR]
    /\ lastRun.fn = "refreshMachineSnapshotOnEvent"
    /\ Unmarshal(lastRun.value).err

\* The events outside the dispatching set, as the claim lists them.
Quiet(src, type) ==
    \/ src = "machine" /\ type \in {CREATE, UPDATE, DELETE}
    \/ src = "digest" /\ type \in {UPDATE, DELETE}
    \/ src = "autoDisc" /\ type = DELETE
    \/ src \in {"machine", "digest", "autoDisc"}
         /\ type \notin {CREATE, UPDATE, DELETE, ERROR}

\* C16: the iteration that receives an event outside the dispatching set
\* starts no goroutine and leaves the loop's position, its result, the
\* schedule state, the armed timer, the three subscriptions and the
\* subscriber registry as they were.
C16_QuietEventsChangeNothing ==
    [][(iter' = iter + 1 /\ Quiet(last'.src, last'.type)) =>
         /\ tasks' = tasks
         /\ pc = "loop" /\ pc' = "loop"
         /\ err' = err
         /\ revalidate' = revalidate
         /\ sche' = sche
         /\ timer' = timer
         /\ now' = now
         /\ Observers' = Observers
         /\ clzSubCh' = clzSubCh
         /\ chans' = chans]_vars

\* A digest UPDATE received while the goroutine of an earlier digest CREATE
\* is pending.
C16_Witness ==
    /\ pc = "loop"
    /\ iter = 2
    /\ last = [src |-> "digest", type |-> UPDATE]
    /\ BagCardinality(tasks) = 1

\* C17: the first Stop raises the stop signal and returns; wherever Serve is
\* by then, a Stop after the first can be called and every such call fails
\* with a panic, leaving the signal as it was: none returns normally.
C17_SecondStopPanics ==
    /\ (closeCh = "open" /\ ~panicked) =>
           /\ ENABLED (Stop /\ closeCh' = "closed" /\ ~panicked')
           /\ ~ENABLED (Stop /\ (closeCh' # "closed" \/ panicked'))
    /\ (closeCh = "closed" /\ ~panicked) =>
           /\ ENABLED (Stop /\ panicked' /\ closeCh' = closeCh /\ pc' = pc)
           /\ ~ENABLED (Stop /\ ~panicked')

\* The process has died after Serve returned, and not of the panics a
\* pending handler, a registration or the subscriber notification can raise:
\* of a second Stop.
C17_Witness ==
    /\ panicked
    /\ closeCh = "closed"
    /\ pc = "done"
    /\ tasks = EmptyBag

\* The next step of goroutine t is enabled: its first statement on a nil
\* handler, its storage call, or, for an event handler, its run up to the
\* executor call.
CanRun(t) ==
    IF t.pool = NoHandler
    THEN ENABLED (/\ \/ RunCreateDigest
                     \/ RunAutoDiscUpdate
                     \/ RunRefreshMachineSnapshot
                     \/ RunRefreshDicoveredMachines
                  /\ panicked')
    ELSE IF t.fn = "createMachineDigestOnTime"
    THEN ENABLED (RunCreateDigest /\ tasks' = tasks (-) SetToBag({t}))
    ELSE IF t.fn = "autoDiscoveryOnTime"
    THEN IF t.st = "start"
         THEN ENABLED (RunAutoDiscUpdate /\ tasks' # tasks)
         ELSE ENABLED (RunAutoDiscCreate /\ tasks' = tasks (-) SetToBag({t}))
    ELSE IF Unmarshal(t.value).err \/ PoolSize(t) = 0
    THEN ENABLED (RunRefreshMachineSnapshot \/ RunRefreshDicoveredMachines)
    ELSE ENABLED (/\ RunRefreshMachineSnapshot \/ RunRefreshDicoveredMachines
                  /\ lastRun'.fn = t.fn
                  /\ lastRun'.value = t.value
                  /\ Len(lastRun'.calls) = 1)

\* C18: leaving the loop, closing the subscriptions, notifying the
\* subscribers and returning neither cancel nor wait for a goroutine: the bag
\* of pending goroutines passes through the exit unchanged, and each one can
\* still make its storage or executor call after Serve has returned.
C18_TasksOutliveServe ==
    /\ [][(pc' # pc /\ (Exited \/ Exited')) => tasks' = tasks]_vars
    /\ []((pc = "done" /\ ~panicked) => \A t \in BagToSet(tasks) : CanRun(t))

\* Serve has returned, the one subscriber has been notified and the registry
\* cleared, and the handler of a digest event is about to make its call on
\* the executor.
C18_Witness ==
    /\ pc = "done"
    /\ ~panicked
    /\ chans = <<1>>
    /\ clzSubCh = <<>>
    /\ executor = 1
    /\ tasks = OneTask("refreshMachineSnapshotOnEvent", Encode("m1"))
    /\ ENABLED (/\ RunRefreshMachineSnapshot
                /\ pc' = "done"
                /\ lastRun'.calls = <<[exec |-> 1, entry |-> "NotifyDigest",
                                       guid |-> "m1"]>>)

\* C19: when Serve returns because a Watch call failed, every handle whose
\* Subscribe call was made before Serve has been notified exactly once and
\* the registry is empty, although the main loop was never entered.
C19_NotifiedOnFailedStart ==
    (/\ pc = "done"
     /\ err = "watch"
     /\ subPc = "idle"
     /\ \A h \in Handles : issued[h] = "pre")
    => /\ iter = 0
       /\ clzSubCh = <<>>
       /\ \A h \in Handles : chans[h] = 1

C19_Witness ==
    /\ pc = "done"
    /\ err = "watch"
    /\ ~panicked
    /\ iter = 0
    /\ timer.at = 0
    /\ subPc = "idle"
    /\ issued = <<"pre", "pre">>
    /\ chans = <<1, 1>>
    /\ clzSubCh = <<>>

\* C20: every receive from a stream whose channel has been closed yields an
\* event of the zero type, which starts no goroutine and leaves Serve in its
\* main loop; the loop is left only on the stop signal or on an ERROR event
\* that a machine or digest stream still open has delivered, and with an
\* ended stream the loop can still receive.
C20_EndedStreamKeepsLoopRunning ==
    /\ [][\A src \in {"machine", "digest", "autoDisc"} :
            (StreamOf(src) = "ended" /\ Received(src)) =>
                /\ last'.type \notin {CREATE, UPDATE, DELETE, ERROR}
                /\ tasks' = tasks
                /\ pc' = "loop"
                /\ timer' = timer
                /\ Observers' = Observers]_vars
    /\ [][(InLoop /\ ~InLoop') =>
            \/ closeCh = "closed" /\ iter' = iter
            \/ /\ iter' = iter + 1
               /\ last'.type = ERROR
               /\ last'.src \in {"machine", "digest"}
               /\ StreamOf(last'.src) = "open"]_vars
    /\ [](\A src \in {"machine", "digest", "autoDisc"} :
            (LoopReady /\ StreamOf(src) = "ended") =>
                /\ \A value \in Values : ENABLED Receive(src, 0, value)
                /\ \A type \in EventTypes \ {0}, value \in Values :
                     ~ENABLED Receive(src, type, value))

\* The loop has received twice from the ended machine stream and is still
\* running, the digest stream open.
C20_Witness ==
    /\ pc = "loop"
    /\ ~panicked
    /\ iter = 2
    /\ machineObserver = "ended"
    /\ digestObserver = "open"
    /\ last = [src |-> "machine", type |-> 0]

\* The display name the claim gives each value of the type.
DisplayName(t) ==
    IF t = 1 THEN "CREATE"
    ELSE IF t = 2 THEN "UPDATE"
    ELSE IF t = 4 THEN "DELETE"
    ELSE IF t = 8 THEN "ERROR"
    ELSE "<invalid>"

\* C13: for every value 0..255 of the event type the String call returns,
\* and what it returns is "CREATE" for 1, "UPDATE" for 2, "DELETE" for 4,
\* "ERROR" for 8 and "<invalid>" for every other value, zero and the
\* combinations of flags included.
C13_DisplayNames ==
    /\ of \in 0 .. MaxByte
    /\ shown = "" => ENABLED StringCall
    /\ shown # "" => shown = DisplayName(of)
    /\ shown \in {"", "CREATE", "UPDATE", "DELETE", "ERROR", "<invalid>"}
    /\ (shown # "" /\ of = CREATE) => shown = "CREATE"
    /\ (shown # "" /\ of = UPDATE) => shown = "UPDATE"
    /\ (shown # "" /\ of = DELETE) => shown = "DELETE"
    /\ (shown # "" /\ of = ERROR) => shown = "ERROR"

\* The call has returned the marker for ERROR and CREATE combined.
C13_Witness ==
    /\ of = 9
    /\ shown = "<invalid>"

\* Sweep i has been started and is at position p.
SweepAt(i, p) == i \in DOMAIN sweeps /\ sweeps[i].pc = p

\* The sweep's latest storage call succeeded or failed with an internal
\* error.
Settled(w) == w.err \in {"nil", "internal"}

\* C14: a sweep calls Update first and falls back to Create when the Update
\* has failed with an error that is not internal; when the Create has failed
\* so as well the attempt repeats, with Update again; once a call has
\* succeeded or failed with an internal error the sweep makes no further
\* storage call and returns, and it returns in no other case.
C14_AttemptRepeats ==
    /\ [][\A i \in DOMAIN sweeps' :
            IF i \notin DOMAIN sweeps
            THEN sweeps'[i].pc = "update"
            ELSE LET w == sweeps[i]
                     v == sweeps'[i]
                 IN \/ v = w
                    \/ w.pc = "update" /\ v.pc = "retry"
                    \/ /\ w.pc = "retry" /\ ~Settled(w) /\ w.call = "Update"
                       /\ v = [w EXCEPT !.pc = "create"]
                       /\ store' = store
                    \/ w.pc = "create" /\ v.pc = "retry"
                    \/ /\ w.pc = "retry" /\ ~Settled(w) /\ w.call = "Create"
                       /\ v = [w EXCEPT !.pc = "update"]
                       /\ store' = store
                    \/ /\ w.pc = "retry" /\ Settled(w)
                       /\ v = [w EXCEPT !.pc = "return"]
                       /\ store' = store]_vars
    /\ [](\A i \in DOMAIN sweeps :
            /\ sweeps[i].pc = "return" => Settled(sweeps[i])
            /\ sweeps[i].pc = "create" => ~Settled(sweeps[i]))
    /\ \A i \in 1 .. MaxSweeps :
          /\ (SweepAt(i, "retry") /\ Settled(sweeps[i])) ~> SweepAt(i, "return")
          /\ (SweepAt(i, "retry") /\ ~Settled(sweeps[i]))
                ~> (SweepAt(i, "create") \/ SweepAt(i, "update"))
          /\ SweepAt(i, "create") ~> SweepAt(i, "retry")

\* C15: against the singleton storage every sweep that is started returns,
\* the storage never holds more than one discovered-machines record, and
\* once a sweep has returned it holds exactly one, in the Started State.
C15_UpsertConverges ==
    /\ \A i \in 1 .. MaxSweeps :
          (backend = "singleton" /\ SweepAt(i, "update")) ~> SweepAt(i, "return")
    /\ [](backend = "singleton" => Len(store) <= 1)
    /\ []((backend = "singleton" /\ \E i \in DOMAIN sweeps : SweepAt(i, "return"))
          => store = <<"Started">>)

====
